---- MODULE Spec2Model ----
(***************************************************************************)
(* A model of src/src/dantalian/tree.py: the virtual namespace tree        *)
(* (FSNode, TagNode, RootNode), the path resolver split, the collision     *)
(* resolver _uniqmap and the serializer dump/load.                         *)
(*                                                                         *)
(* Strings (names, real paths, virtual paths) are sequences of one-        *)
(* character strings, so that basename, lstrip, split and join are         *)
(* computed character by character as the Python code computes them.       *)
(***************************************************************************)
EXTENDS Integers, Sequences, FiniteSets, TLC

VARIABLES
    nodes,          \* the heap of node objects: a sequence of node records
    pc,             \* "idle": the driver may call; "returned": a call has returned
    result,         \* what the last call did: its arguments and its outcome
    fuse_resolve,   \* the external libpath.fuse_resolve: real path -> alternate name
    files,          \* _uniqmap: the work queue
    map,            \* _uniqmap: the result mapping name -> path
    names_seen,     \* _uniqmap: the names seen so far
    upc,            \* _uniqmap: "loop" while in the while loop, "done" after return
    input,          \* _uniqmap: the argument list as it was passed
    last,           \* _uniqmap: what the last loop iteration did
    calls           \* the number of calls so far that changed the tree

vars == <<nodes, pc, result, fuse_resolve, files, map, names_seen, upc, input, last,
          calls>>

treeVars == <<nodes, pc, result, calls>>
uniqVars == <<files, map, names_seen, upc, input, last>>

(***************************************************************************)
(* Bounds                                                                  *)
(***************************************************************************)
MaxNodes == 3       \* node objects alive in the heap
MaxCalls == 4       \* calls that change the tree
MaxFiles == 3       \* length of the list passed to _uniqmap

(***************************************************************************)
(* Strings                                                                 *)
(***************************************************************************)
MaxOf(S) == CHOOSE x \in S : \A y \in S : y <= x

Range(s) == {s[i] : i \in 1..Len(s)}

\* os.path.basename: what follows the last "/"
Basename(p) ==
    LET slashes == {i \in 1..Len(p) : p[i] = "/"}
    IN  IF slashes = {} THEN p ELSE SubSeq(p, MaxOf(slashes) + 1, Len(p))

\* os.path.join(a, b) for a relative b and an a that does not end in "/"
PathJoin(a, b) == a \o <<"/">> \o b

\* str.lstrip('/')
RECURSIVE Lstrip(_)
Lstrip(p) == IF p # <<>> /\ Head(p) = "/" THEN Lstrip(Tail(p)) ELSE p

\* str.split('/'): the pieces between separators, empty pieces included
RECURSIVE SplitSlash(_, _)
SplitSlash(p, cur) ==
    IF p = <<>> THEN <<cur>>
    ELSE IF Head(p) = "/" THEN <<cur>> \o SplitSlash(Tail(p), <<>>)
    ELSE SplitSlash(Tail(p), Append(cur, Head(p)))

\* The mutant of Segments: empty pieces are kept.
SegmentsKeepEmpty(path) == SplitSlash(Lstrip(path), <<>>)

\* [x for x in path.lstrip('/').split('/') if x != ""]
Segments(path) ==
    SelectSeq(SplitSlash(Lstrip(path), <<>>), LAMBDA x : x # <<>>)

(***************************************************************************)
(* Python dicts: functions with a finite domain                            *)
(***************************************************************************)
EmptyDict == <<>>

Put(d, k, v) == [x \in (DOMAIN d) \cup {k} |-> IF x = k THEN v ELSE d[x]]

Remove(d, k) == [x \in (DOMAIN d) \ {k} |-> d[x]]

(***************************************************************************)
(* The Library collaborator (dantalian.library, outside this file)         *)
(***************************************************************************)
LibRoot == <<"/", "l">>

PathA == <<"/", "l", "/", "a", "/", "s">>
PathB == <<"/", "l", "/", "b", "/", "s">>
PathC == <<"/", "l", "/", "c", "/", "s">>
PathT == <<"/", "l", "/", "t">>

LibPaths == {PathA, PathB, PathC, PathT}
LibOrder == <<PathA, PathB, PathC, PathT>>

\* the tags each file of the library carries
LibTags(p) ==
    CASE p = PathA -> {"r"}
      [] p = PathB -> {"r", "q"}
      [] p = PathC -> {"q"}
      [] OTHER -> {"j"}

\* Library.find(tags): the paths that carry every tag
LibFind(tags) == SelectSeq(LibOrder, LAMBDA p : Range(tags) \subseteq LibTags(p))

\* the entries of the library's root directory
LibEntries == { <<".", "d">>, <<"a">>, <<"b">>, <<"c">>, <<"t">> }

\* the orders in which the keys of a dict, or the entries of a directory, can
\* be met: every list that has each element once
Enumerations(S) == {q \in [1..Cardinality(S) -> S] : Range(q) = S}

\* os.listdir(root.root): the entries in arbitrary order, so any of these lists
LibListing == Enumerations(LibEntries)

\* libpath.fuserootdir(''): the reserved name of the private directory
FuseRootDir == <<".", "d">>

\* libpath.rootdir(root.root): the private metadata directory
RootDir == PathJoin(LibRoot, <<".", "d">>)

\* the names fuse_resolve may return
AltNames ==
    { <<"a", "s">>, <<"b", "s">>, <<"c", "s">>, <<"l", "t">>, <<"s">>, <<"t">> }

(***************************************************************************)
(* _uniqmap (lines 339-368)                                                *)
(***************************************************************************)
\* The mutant of Requeue: the path stored under the alternate name is not put back.
RequeueDropped(rest, m, new) == rest

\* The mutant of Requeue: the path stored under the alternate name is put at
\* the front of the queue.
RequeueFront(rest, m, new) ==
    IF new \in DOMAIN m THEN <<m[new]>> \o rest ELSE rest

\* lines 363-365, files.append(map[new]): the path stored under the alternate
\* name goes to the back of the queue
Requeue(rest, m, new) ==
    IF new \in DOMAIN m THEN Append(rest, m[new]) ELSE rest

\* One iteration of the while loop (lines 353-367) on st = [files, map, names_seen].
\* names_seen is only ever tested for membership (line 356): it is kept as the
\* set of its elements.
UniqIter(st) ==
    LET f == Head(st.files)
        rest == Tail(st.files)
        name == Basename(f)
    IN  IF name \notin st.names_seen
        THEN [files |-> rest,
              map |-> Put(st.map, name, f),
              names_seen |-> st.names_seen \cup {name}]
        ELSE LET new == fuse_resolve[f]
             IN  [files |-> Requeue(rest, st.map, new),
                  map |-> Put(st.map, new, f),
                  names_seen |-> st.names_seen \cup {new}]

\* The whole call, as a function: the returned dict, or hang when the loop
\* comes back to a state it was in before and so never ends.
RECURSIVE UniqRun(_, _)
UniqRun(st, visited) ==
    IF st.files = <<>> THEN [hang |-> FALSE, map |-> st.map]
    ELSE IF st \in visited THEN [hang |-> TRUE, map |-> EmptyDict]
    ELSE UniqRun(UniqIter(st), visited \cup {st})

uniqmap(fs) ==
    UniqRun([files |-> fs, map |-> EmptyDict, names_seen |-> {}], {})

\* what an iteration did, kept for the properties
\* (tick is the parity of the number of iterations made)
NoLast == [path |-> <<>>, name |-> <<>>, collision |-> FALSE,
           evicted |-> FALSE, victim |-> <<>>, queue |-> <<>>, tick |-> 0]

UniqState == [files |-> files, map |-> map, names_seen |-> names_seen]

\* lines 356-359: the basename is new
UniqNoCollision ==
    /\ upc = "loop"
    /\ files # <<>>
    /\ Basename(Head(files)) \notin names_seen
    /\ LET st == UniqIter(UniqState)
       IN  /\ files' = st.files
           /\ map' = st.map
           /\ names_seen' = st.names_seen
    /\ last' = [path |-> Head(files), name |-> Basename(Head(files)),
                collision |-> FALSE, evicted |-> FALSE, victim |-> <<>>,
                queue |-> Tail(files), tick |-> 1 - last.tick]
    /\ UNCHANGED <<upc, input, fuse_resolve, treeVars>>

\* lines 360-367: the basename was seen before
UniqCollision ==
    /\ upc = "loop"
    /\ files # <<>>
    /\ Basename(Head(files)) \in names_seen
    /\ LET st == UniqIter(UniqState)
           new == fuse_resolve[Head(files)]
       IN  /\ files' = st.files
           /\ map' = st.map
           /\ names_seen' = st.names_seen
           /\ last' = [path |-> Head(files), name |-> new,
                       collision |-> TRUE, evicted |-> new \in DOMAIN map,
                       victim |-> IF new \in DOMAIN map THEN map[new] ELSE <<>>,
                       queue |-> Tail(files), tick |-> 1 - last.tick]
    /\ UNCHANGED <<upc, input, fuse_resolve, treeVars>>

\* line 352 with an empty queue, line 368
UniqReturn ==
    /\ upc = "loop"
    /\ files = <<>>
    /\ upc' = "done"
    /\ UNCHANGED <<files, map, names_seen, input, last, fuse_resolve, treeVars>>

NoResult == [op |-> "none"]

FileLists == UNION {[1..k -> LibPaths] : k \in 0..MaxFiles}

InitUniq ==
    /\ input \in FileLists
    /\ fuse_resolve \in [LibPaths -> AltNames]
    /\ files = input
    /\ map = EmptyDict
    /\ names_seen = {}
    /\ upc = "loop"
    /\ last = NoLast
    /\ nodes = <<>>
    /\ calls = 0
    /\ pc = "idle"
    /\ result = NoResult

NextUniq == UniqNoCollision \/ UniqCollision \/ UniqReturn

SpecUniq == InitUniq /\ [][NextUniq]_vars

\* The loop body runs whenever the queue is not empty: nothing else is scheduled.
SpecUniqFair == SpecUniq /\ WF_vars(NextUniq)

(***************************************************************************)
(* Nodes.  A child value is a node (a reference into the heap) or a        *)
(* string (a real path).                                                   *)
(***************************************************************************)
NodeVal(i) == [isStr |-> FALSE, id |-> i, s |-> <<>>]
StrVal(p) == [isStr |-> TRUE, id |-> 0, s |-> p]

Ok(v) == [status |-> "ok", val |-> v]
Raise(e) == [status |-> e, val |-> StrVal(<<>>)]

\* FSNode.__init__ (lines 151-162): no children, st_nlink = 2.
\* dict says which dict object self.children is (0 until New names it): two
\* nodes with the same dict see each other's assignments and deletions.
FSNodeInit ==
    [type |-> "FSNode", tags |-> <<>>, children |-> EmptyDict, st_nlink |-> 2,
     dict |-> 0]

\* self.children = {} (line 152): the dict object id, made for this node
New(nd, id) == [nd EXCEPT !.dict = id]

\* FSNode.__setitem__ (lines 170-172)
SetItemOn(nd, key, value) ==
    [nd EXCEPT !.children = Put(@, key, value), !.st_nlink = @ + 1]

\* The mutant of DelItemOn: a missing key is passed over in silence.
DelItemSilent(nd, key) ==
    [status |-> "ok",
     node |-> [nd EXCEPT !.children = Remove(@, key), !.st_nlink = @ - 1]]

\* FSNode.__delitem__ (lines 174-176), inherited by TagNode and RootNode:
\* del self.children[key] raises KeyError before line 176 when key is missing
DelItemOn(nd, key) ==
    IF key \in DOMAIN nd.children
    THEN [status |-> "ok",
          node |-> [nd EXCEPT !.children = Remove(@, key), !.st_nlink = @ - 1]]
    ELSE [status |-> "KeyError", node |-> nd]

\* TagNode.__init__ (lines 209-215)
TagNodeInit(tags) == [FSNodeInit EXCEPT !.type = "TagNode", !.tags = tags]

\* RootNode.__init__ (lines 250-261): the private directory is an explicit child
RootNodeInit ==
    SetItemOn([FSNodeInit EXCEPT !.type = "RootNode"], FuseRootDir, StrVal(RootDir))

\* FSNode.__getitem__ (lines 167-168)
GetItemFS(nd, key) ==
    IF key \in DOMAIN nd.children THEN Ok(nd.children[key]) ELSE Raise("KeyError")

\* TagNode._tagged (lines 226-227)
Tagged(nd) == uniqmap(LibFind(nd.tags))

\* TagNode.__getitem__ (lines 220-224)
GetItemTag(nd, key) ==
    IF GetItemFS(nd, key).status = "ok" THEN GetItemFS(nd, key)
    ELSE LET t == Tagged(nd)
         IN  IF t.hang THEN Raise("hang")
             ELSE IF key \in DOMAIN t.map THEN Ok(StrVal(t.map[key]))
             ELSE Raise("KeyError")

\* RootNode._files (lines 275-276): the lists the call can return
Files == LibListing

\* RootNode.__getitem__ (lines 266-273).  Line 270 calls self.files(), which no
\* class defines (the method is _files): the attribute lookup raises
\* AttributeError inside the except clause, whatever the key.
GetItemRoot(nd, key) ==
    IF GetItemFS(nd, key).status = "ok" THEN GetItemFS(nd, key)
    ELSE Raise("AttributeError")

\* node[key]
GetItem(n, key) ==
    CASE nodes[n].type = "FSNode" -> GetItemFS(nodes[n], key)
      [] nodes[n].type = "TagNode" -> GetItemTag(nodes[n], key)
      [] OTHER -> GetItemRoot(nodes[n], key)

\* The mutant of AfterRead: the computed children of a Tag Query Node are
\* written into its explicit children.
AfterReadCached(nd) ==
    IF nd.type = "TagNode"
    THEN [nd EXCEPT !.children =
             [k \in DOMAIN nd.children \cup DOMAIN Tagged(nd).map |->
                 IF k \in DOMAIN nd.children THEN nd.children[k]
                 ELSE StrVal(Tagged(nd).map[k])]]
    ELSE nd

\* The node a lookup or an enumeration leaves behind: __iter__, __getitem__,
\* _tagged and _files (lines 164-168, 217-227, 263-276) assign to nothing;
\* the mapping _tagged computes is returned and dropped.
AfterRead(nd) == nd

\* The mutant of Chain: a name that was already yielded is left out.
ChainDedup(ex, co) == ex \o SelectSeq(co, LAMBDA k : k \notin Range(ex))

\* itertools.chain (lines 218, 264): all of the first, then all of the second
Chain(ex, co) == ex \o co

\* FSNode.__iter__ (lines 164-165): iter(self.children)
IterFS(nd) == {[status |-> "ok", names |-> ex] : ex \in Enumerations(DOMAIN nd.children)}

\* TagNode.__iter__ (lines 217-218): chain(super().__iter__(), self._tagged().keys())
IterTag(nd) ==
    IF Tagged(nd).hang THEN {[status |-> "hang", names |-> <<>>]}
    ELSE {[status |-> "ok", names |-> Chain(e.names, co)] :
             e \in IterFS(nd), co \in Enumerations(DOMAIN Tagged(nd).map)}

\* RootNode.__iter__ (lines 263-264): chain(super().__iter__(), self._files())
IterRoot(nd) ==
    {[status |-> "ok", names |-> Chain(e.names, fl)] : e \in IterFS(nd), fl \in Files}

\* list(node)
Iter(n) ==
    CASE nodes[n].type = "FSNode" -> IterFS(nodes[n])
      [] nodes[n].type = "TagNode" -> IterTag(nodes[n])
      [] OTHER -> IterRoot(nodes[n])

\* the node-valued explicit children of node n
ChildNodes(n) ==
    {nodes[n].children[k].id :
        k \in {x \in DOMAIN nodes[n].children : ~nodes[n].children[x].isStr}}

\* the nodes reachable from n through explicit children, n included
RECURSIVE Descendants(_, _)
Descendants(n, fuel) ==
    IF fuel = 0 THEN {n}
    ELSE {n} \cup UNION {Descendants(c, fuel - 1) : c \in ChildNodes(n)}

(***************************************************************************)
(* split (lines 299-336)                                                   *)
(***************************************************************************)
None == [status |-> "None", node |-> 0, rest |-> <<>>]

\* lines 328-330: a string was found; the segment list is returned as it is
AtBorder(cur, path) == [status |-> "ok", node |-> cur, rest |-> path]

\* lines 325-327: the lookup raised KeyError
Broken(cur, path) == None

\* the while loop, lines 321-336; an exception other than KeyError escapes
RECURSIVE Walk(_, _)
Walk(cur, path) ==
    IF path = <<>> THEN [status |-> "ok", node |-> cur, rest |-> <<>>]
    ELSE LET a == GetItem(cur, path[1])
         IN  IF a.status = "KeyError" THEN Broken(cur, path)
             ELSE IF a.status # "ok"
                  THEN [status |-> a.status, node |-> 0, rest |-> <<>>]
             ELSE IF a.val.isStr THEN AtBorder(cur, path)
             ELSE Walk(a.val.id, Tail(path))

split(tree, path) ==
    IF ~(Len(path) > 0 /\ path[1] = "/")
    THEN [status |-> "AssertionError", node |-> 0, rest |-> <<>>]
    ELSE Walk(tree, Segments(path))

(***************************************************************************)
(* dump and load (lines 72-119, 178-187, 229-238, 278-287)                 *)
(* A dumped list [name, dict] or [name, tags, dict] is the record          *)
(* [tag, len, tags, map]; len is the length of the list.                   *)
(***************************************************************************)
NoSer == [tag |-> "", len |-> 0, tags |-> <<>>, map |-> EmptyDict]

\* FSNode.dump, TagNode.dump, RootNode.dump: self[x].dump() for every explicit
\* child x; a str has no dump method, so a string child raises AttributeError
RECURSIVE Dump(_)
Dump(n) ==
    LET nd == nodes[n]
        kids == nd.children
    IN  IF \E k \in DOMAIN kids : kids[k].isStr \/ Dump(kids[k].id).status # "ok"
        THEN [status |-> "AttributeError", ser |-> NoSer]
        ELSE [status |-> "ok",
              ser |-> [tag |-> nd.type,
                       len |-> IF nd.type = "TagNode" THEN 3 ELSE 2,
                       tags |-> nd.tags,
                       map |-> [k \in DOMAIN kids |-> Dump(kids[k].id).ser]]]

\* A tree as a value: the type, the tags and the explicit children of a node,
\* each child a string or again a tree.
StrKid(p) == [isStr |-> TRUE, s |-> p, sub |-> <<>>]
SubKid(t) == [isStr |-> FALSE, s |-> <<>>, sub |-> t]

MkTree(type, tags, kids) == [type |-> type, tags |-> tags, children |-> kids]

RECURSIVE TreeOf(_)
TreeOf(n) ==
    MkTree(nodes[n].type, nodes[n].tags,
           [k \in DOMAIN nodes[n].children |->
               IF nodes[n].children[k].isStr
               THEN StrKid(nodes[n].children[k].s)
               ELSE SubKid(TreeOf(nodes[n].children[k].id))])

NoTree == MkTree("", <<>>, EmptyDict)

\* the keys of _load_map (lines 81, 90, 99)
LoadMapKeys == {"FSNode", "TagNode", "RootNode"}

\* whether iterating node[1] yields anything: node[1] is the dict of a list of
\* length 2 and the tag list of a list of length 3
Item1NonEmpty(ser) ==
    IF ser.len = 2 THEN DOMAIN ser.map # {} ELSE ser.tags # <<>>

\* lines 81-87.  load(map[k]) passes one argument to load(root, nodes):
\* TypeError as soon as the loop body runs.
LoadFSNode(ser) ==
    IF Item1NonEmpty(ser) THEN [status |-> "TypeError", tree |-> NoTree]
    ELSE [status |-> "ok", tree |-> MkTree("FSNode", <<>>, EmptyDict)]

\* lines 90-96.  TagNode(node[1]) passes one argument to
\* TagNode.__init__(self, root, tags): TypeError.
LoadTagNode(ser) == [status |-> "TypeError", tree |-> NoTree]

\* lines 99-105.  node[2] does not exist in a list of length 2: IndexError.
LoadRootNode(ser) ==
    IF ser.len < 3 THEN [status |-> "IndexError", tree |-> NoTree]
    ELSE IF DOMAIN ser.map # {} THEN [status |-> "TypeError", tree |-> NoTree]
    ELSE [status |-> "ok",
          tree |-> MkTree("RootNode", <<>>,
                          [k \in {FuseRootDir} |-> StrKid(RootDir)])]

\* load (lines 108-119): _load_map[nodes[0]](root, nodes)
Load(ser) ==
    CASE ser.tag \notin LoadMapKeys -> [status |-> "KeyError", tree |-> NoTree]
      [] ser.tag = "FSNode" -> LoadFSNode(ser)
      [] ser.tag = "TagNode" -> LoadTagNode(ser)
      [] OTHER -> LoadRootNode(ser)

(***************************************************************************)
(* fs2tag (lines 290-295)                                                  *)
(***************************************************************************)
\* The mutant of Fs2TagNode: the children are not copied.
Fs2TagEmpty(nd, tags) == New(TagNodeInit(tags), Len(nodes) + 1)

\* The mutant of Fs2TagNode: x.children = node.children, the two nodes have
\* one dict.
Fs2TagAlias(nd, tags) ==
    [New(TagNodeInit(tags), nd.dict) EXCEPT !.children = nd.children]

\* x = TagNode(root, tags); x.children.update(dict(node.children)): the
\* entries are copied into the dict of the new node
Fs2TagNode(nd, tags) ==
    [New(TagNodeInit(tags), Len(nodes) + 1) EXCEPT !.children = nd.children]

(***************************************************************************)
(* The calls of the driver layer.  A call is made when the previous one    *)
(* has returned (pc = "idle") and leaves its outcome in result.            *)
(***************************************************************************)
Ids == 1..Len(nodes)

NameM == <<"m">>
NameS == <<"s">>
NameT == <<"t">>
NameZ == <<"z">>

\* the names given to explicit children
AssignKeys == {NameM, NameS}

\* the names looked up and deleted
LookupKeys == {NameM, NameS, NameT, NameZ, <<"b", "s">>, FuseRootDir}

\* the tag lists of the Tag Query Nodes constructed, and of those fs2tag makes
TagLists == { <<"r">> }
Fs2TagLists == { <<"q">> }

\* the nodes that are an explicit child of some node
Owned == UNION {ChildNodes(i) : i \in Ids}

\* the values assigned to a name of node n: a real path, or a node that is not
\* the tree's root, is not yet the child of a node and does not contain n
\* (a Directory Node owns its explicit children)
AssignValues(n) ==
    {StrVal(PathT)} \cup
    {NodeVal(m) : m \in {i \in Ids \ ({1} \cup Owned) :
                            n \notin Descendants(i, Len(nodes))}}

\* the names deleted
DeleteKeys == {NameM, NameS, NameT, FuseRootDir}

\* the virtual paths given to split
VirtualPaths ==
    { <<"/">>, <<"/", "/">>,
      <<"/", "m">>, <<"/", "m", "/", "s">>, <<"/", "m", "/", "/", "s", "/">>,
      <<"/", "m", "/", "t">>, <<"/", "m", "/", "t", "/", "z">>,
      <<"/", "m", "/", "z", "/", "s">>, <<"/", "z", "/", "m">>,
      <<"/", "s", "/", "m">>, <<"/", ".", "d", "/", "z">>, <<"/", "a">> }

\* The heap after node n has become nd by an assignment or a deletion in its
\* dict (lines 171, 175): the dict is changed in place, so every node whose
\* children is that dict object has the new children; st_nlink is n's own.
Store(n, nd) ==
    [i \in Ids |->
        IF i = n THEN nd
        ELSE IF nodes[i].dict = nodes[n].dict
        THEN [nodes[i] EXCEPT !.children = nd.children]
        ELSE nodes[i]]

NewFSNode ==
    /\ pc = "idle"
    /\ calls < MaxCalls
    /\ calls' = calls + 1
    /\ Len(nodes) < MaxNodes
    /\ nodes' = Append(nodes, New(FSNodeInit, Len(nodes) + 1))
    /\ result' = [op |-> "new", node |-> Len(nodes) + 1, before |-> nodes]
    /\ pc' = "returned"
    /\ UNCHANGED <<fuse_resolve, uniqVars>>

NewTagNode ==
    /\ pc = "idle"
    /\ calls < MaxCalls
    /\ calls' = calls + 1
    /\ Len(nodes) < MaxNodes
    /\ \E tags \in TagLists :
        /\ nodes' = Append(nodes, New(TagNodeInit(tags), Len(nodes) + 1))
        /\ result' = [op |-> "new", node |-> Len(nodes) + 1, before |-> nodes]
    /\ pc' = "returned"
    /\ UNCHANGED <<fuse_resolve, uniqVars>>

\* node[key] = value
SetItem ==
    /\ pc = "idle"
    /\ calls < MaxCalls
    /\ calls' = calls + 1
    /\ \E n \in Ids : \E key \in AssignKeys : \E value \in AssignValues(n) :
        /\ nodes' = Store(n, SetItemOn(nodes[n], key, value))
        /\ result' = [op |-> "setitem", node |-> n, key |-> key, val |-> value,
                      status |-> "ok", before |-> nodes]
    /\ pc' = "returned"
    /\ UNCHANGED <<fuse_resolve, uniqVars>>

\* del node[key]
DelItem ==
    /\ pc = "idle"
    /\ \E n \in Ids : \E key \in DeleteKeys :
        LET r == DelItemOn(nodes[n], key)
        IN  /\ nodes' = Store(n, r.node)
            /\ result' = [op |-> "delitem", node |-> n, key |-> key,
                          status |-> r.status, before |-> nodes]
            /\ IF nodes' = nodes THEN calls' = calls
               ELSE calls < MaxCalls /\ calls' = calls + 1
    /\ pc' = "returned"
    /\ UNCHANGED <<fuse_resolve, uniqVars>>

\* node[key]
DoGetItem ==
    /\ pc = "idle"
    /\ \E n \in Ids : \E key \in LookupKeys :
        /\ result' = [op |-> "getitem", node |-> n, key |-> key,
                      status |-> GetItem(n, key).status,
                      val |-> GetItem(n, key).val, before |-> nodes]
        /\ nodes' = [nodes EXCEPT ![n] = AfterRead(@)]
    /\ pc' = "returned"
    /\ UNCHANGED <<calls, fuse_resolve, uniqVars>>

\* list(node).  The listing of the library root comes in any of its orders,
\* so the driver enumerates a Root Projection Node only while its budget of
\* calls lasts.
DoIter ==
    /\ pc = "idle"
    /\ \E n \in {i \in Ids : nodes[i].type = "RootNode" => calls < MaxCalls} :
       \E r \in Iter(n) :
        /\ result' = [op |-> "iter", node |-> n, status |-> r.status,
                      names |-> r.names, before |-> nodes]
        /\ nodes' = [nodes EXCEPT ![n] = AfterRead(@)]
    /\ pc' = "returned"
    /\ UNCHANGED <<calls, fuse_resolve, uniqVars>>

\* split(tree, path), tree the root of the whole tree
DoSplit ==
    /\ pc = "idle"
    /\ \E n \in {1} : \E path \in VirtualPaths :
        LET r == split(n, path)
        IN  result' = [op |-> "split", tree |-> n, path |-> path,
                       status |-> r.status, node |-> r.node, rest |-> r.rest,
                       before |-> nodes]
    /\ nodes' = [i \in Ids |-> AfterRead(nodes[i])]
    /\ pc' = "returned"
    /\ UNCHANGED <<calls, fuse_resolve, uniqVars>>

\* node.dump()
DoDump ==
    /\ pc = "idle"
    /\ \E n \in Ids :
        result' = [op |-> "dump", node |-> n, status |-> Dump(n).status,
                   ser |-> Dump(n).ser, before |-> nodes]
    /\ pc' = "returned"
    /\ UNCHANGED <<nodes, calls, fuse_resolve, uniqVars>>

\* load(lib, d) for the d that the dump just made
DoLoad ==
    /\ pc = "returned"
    /\ result.op = "dump"
    /\ result.status = "ok"
    /\ result' = [op |-> "load", node |-> result.node, ser |-> result.ser,
                  status |-> Load(result.ser).status,
                  tree |-> Load(result.ser).tree, before |-> nodes]
    /\ UNCHANGED <<nodes, pc, calls, fuse_resolve, uniqVars>>

\* serialized forms that name a type load does not know ("Bogus"), at the top
\* level or in a child, and one that names only known types
BogusForm == [tag |-> "Bogus", len |-> 2, tags |-> <<>>, map |-> EmptyDict]
FormOf(tag, len, tags, kid) ==
    [tag |-> tag, len |-> len, tags |-> tags, map |-> [k \in {NameM} |-> kid]]
LoadForms ==
    { BogusForm,
      FormOf("FSNode", 2, <<>>, BogusForm),
      FormOf("TagNode", 3, <<"r">>, BogusForm),
      FormOf("RootNode", 3, <<>>, BogusForm),
      FormOf("FSNode", 2, <<>>, FormOf("FSNode", 2, <<>>, BogusForm)),
      [tag |-> "FSNode", len |-> 2, tags |-> <<>>, map |-> EmptyDict] }

\* load(lib, d) for a serialized form d that was written by hand
DoLoadForm ==
    /\ pc = "idle"
    /\ \E ser \in LoadForms :
        result' = [op |-> "loadform", ser |-> ser, status |-> Load(ser).status,
                   tree |-> Load(ser).tree, before |-> nodes]
    /\ pc' = "returned"
    /\ UNCHANGED <<nodes, calls, fuse_resolve, uniqVars>>

\* fs2tag(node, lib, tags)
DoFs2Tag ==
    /\ pc = "idle"
    /\ calls < MaxCalls
    /\ calls' = calls + 1
    /\ Len(nodes) < MaxNodes
    /\ \E n \in Ids : \E tags \in Fs2TagLists :
        /\ nodes' = Append(nodes, Fs2TagNode(nodes[n], tags))
        /\ result' = [op |-> "fs2tag", src |-> n, tags |-> tags,
                      node |-> Len(nodes) + 1, before |-> nodes]
    /\ pc' = "returned"
    /\ UNCHANGED <<fuse_resolve, uniqVars>>

\* the call has returned and the driver makes the next one
Return ==
    /\ pc = "returned"
    /\ pc' = "idle"
    /\ result' = NoResult
    /\ UNCHANGED <<nodes, calls, fuse_resolve, uniqVars>>

\* an alternate name for every path of the library
TreeFuse ==
    { [p \in LibPaths |->
          CASE p = PathA -> <<"a", "s">>
            [] p = PathB -> <<"b", "s">>
            [] p = PathC -> <<"s">>
            [] OTHER -> <<"t">>] }

\* The tree is a single Root Projection Node.
Init ==
    /\ nodes = <<New(RootNodeInit, 1)>>
    /\ calls = 0
    /\ pc = "idle"
    /\ result = NoResult
    /\ fuse_resolve \in TreeFuse
    /\ files = <<>>
    /\ map = EmptyDict
    /\ names_seen = {}
    /\ upc = "done"
    /\ input = <<>>
    /\ last = NoLast

Next ==
    \/ NewFSNode
    \/ NewTagNode
    \/ SetItem
    \/ DelItem
    \/ DoGetItem
    \/ DoIter
    \/ DoSplit
    \/ DoDump
    \/ DoLoad
    \/ DoLoadForm
    \/ DoFs2Tag
    \/ Return

Spec == Init /\ [][Next]_vars

(***************************************************************************)
(* What the specification says a node's children are (spec 3 and 4.1):     *)
(* the explicit children, and for a border node the computed children.     *)
(***************************************************************************)
\* the computed children of a node: name -> real path
Computed(nd) ==
    CASE nd.type = "TagNode" -> Tagged(nd).map
      [] nd.type = "RootNode" -> [k \in LibEntries |-> PathJoin(LibRoot, k)]
      [] OTHER -> EmptyDict

\* lookup as specified: the explicit child, else the computed child, else nothing
SpecLookup(n, key) ==
    IF key \in DOMAIN nodes[n].children
    THEN [found |-> TRUE, val |-> nodes[n].children[key]]
    ELSE IF key \in DOMAIN Computed(nodes[n])
    THEN [found |-> TRUE, val |-> StrVal(Computed(nodes[n])[key])]
    ELSE [found |-> FALSE, val |-> StrVal(<<>>)]

\* the walk meets a segment that is no child of the node it is looked up in
RECURSIVE HitsUnknown(_, _)
HitsUnknown(cur, segs) ==
    IF segs = <<>> THEN FALSE
    ELSE LET a == SpecLookup(cur, segs[1])
         IN  IF ~a.found THEN TRUE
             ELSE IF a.val.isStr THEN FALSE
             ELSE HitsUnknown(a.val.id, Tail(segs))

\* the walk meets a segment whose value is a real path: where, and what is left
RECURSIVE Border(_, _)
Border(cur, segs) ==
    IF segs = <<>> THEN [hit |-> FALSE, node |-> 0, rest |-> <<>>]
    ELSE LET a == SpecLookup(cur, segs[1])
         IN  IF ~a.found THEN [hit |-> FALSE, node |-> 0, rest |-> <<>>]
             ELSE IF a.val.isStr THEN [hit |-> TRUE, node |-> cur, rest |-> segs]
             ELSE Border(a.val.id, Tail(segs))

\* the node reached by following node-valued explicit children, 0 if there is none
RECURSIVE Follow(_, _)
Follow(cur, segs) ==
    IF segs = <<>> THEN cur
    ELSE IF /\ segs[1] \in DOMAIN nodes[cur].children
            /\ ~nodes[cur].children[segs[1]].isStr
         THEN Follow(nodes[cur].children[segs[1]].id, Tail(segs))
         ELSE 0

\* the segments of a path as the specification describes them (spec 4.2): the
\* maximal runs of characters between separators; consecutive, leading and
\* trailing separators give no segment
RECURSIVE NameRuns(_, _)
NameRuns(p, cur) ==
    LET done == IF cur = <<>> THEN <<>> ELSE <<cur>>
    IN  IF p = <<>> THEN done
        ELSE IF Head(p) = "/" THEN done \o NameRuns(Tail(p), <<>>)
        ELSE NameRuns(Tail(p), Append(cur, Head(p)))

SpecSegments(path) == NameRuns(path, <<>>)

Distinct(s) == \A i, j \in 1..Len(s) : i # j => s[i] # s[j]

\* fuse_resolve as the specification describes it: distinct paths get distinct
\* alternate names, and no alternate name is the basename of a path
Disambiguates(f) ==
    /\ \A a, b \in DOMAIN f : a # b => f[a] # f[b]
    /\ \A a, b \in DOMAIN f : f[a] # Basename(b)

Outcome(r) == [status |-> r.status, node |-> r.node, rest |-> r.rest]

(***************************************************************************)
(* The claims                                                              *)
(***************************************************************************)
\* C1: after every assign and delete on a Directory Node (FSNode) the link
\* count is 2 + the number of explicit children.
C1_LinkCountFSNode ==
    \A n \in Ids :
        nodes[n].type = "FSNode" =>
            nodes[n].st_nlink = 2 + Cardinality(DOMAIN nodes[n].children)

\* C2: for a list of pairwise distinct paths, no path is ever dropped or
\* overwritten (each is in the queue or under exactly one name), and the
\* returned mapping has as many entries as the list, each path under
\* exactly one name.
C2_UniqCoversEveryPath ==
    Distinct(input) =>
        /\ \A p \in Range(input) :
              Cardinality({i \in 1..Len(files) : files[i] = p})
                + Cardinality({k \in DOMAIN map : map[k] = p}) = 1
        /\ upc = "done" =>
              /\ Cardinality(DOMAIN map) = Len(input)
              /\ \A p \in Range(input) :
                    Cardinality({k \in DOMAIN map : map[k] = p}) = 1

\* C2 witness: three distinct paths, the alternate name of the third is the
\* basename of the second, which is evicted and stored again.
C2_Witness ==
    /\ upc = "done"
    /\ input = <<PathC, PathT, PathA>>
    /\ fuse_resolve[PathA] = NameT
    /\ map[NameT] = PathA
    /\ Cardinality(DOMAIN map) = 3

\* C3: for every finite input list, lists that repeat a path included, the
\* work queue drains and _uniqmap returns (stated here for a fuse_resolve
\* that gives distinct paths distinct names, none of them a basename).
C3_QueueDrains == Disambiguates(fuse_resolve) => <>(upc = "done")

\* C4: split on a path with an unknown segment before any boundary returns
\* None, whatever the type of the node the segment is looked up in.
C4_UnknownSegmentIsNone ==
    (result.op = "split" /\ HitsUnknown(result.tree, Segments(result.path)))
        => result.status = "None"

\* C5: when split meets a segment whose value is a real path, explicit or
\* computed, it returns the node the segment was looked up in and the
\* remaining segments, the matched one first.
C5_StopsAtBoundary ==
    (result.op = "split" /\ Border(result.tree, Segments(result.path)).hit)
        => /\ result.status = "ok"
           /\ result.node = Border(result.tree, Segments(result.path)).node
           /\ result.rest = Border(result.tree, Segments(result.path)).rest

\* C6: split on an absolute path whose non-empty segments all name virtual
\* nodes (node-valued explicit children, one below the other) returns the
\* terminal node and an empty remainder; the empty segments of consecutive
\* and trailing separators are dropped: "/" and "//" resolve to the root,
\* and "/m//s/" resolves like "/m/s".
C6_VirtualPathResolves ==
    result.op = "split" =>
        /\ result.path \in { <<"/">>, <<"/", "/">> } =>
              Outcome(result) = [status |-> "ok", node |-> result.tree, rest |-> <<>>]
        /\ result.path = <<"/", "m", "/", "/", "s", "/">> =>
              Outcome(result) = split(result.tree, <<"/", "m", "/", "s">>)
        /\ Follow(result.tree, SpecSegments(result.path)) # 0 =>
              Outcome(result) =
                  [status |-> "ok",
                   node |-> Follow(result.tree, SpecSegments(result.path)),
                   rest |-> <<>>]

\* C6 witness: "/m//s/" resolved through two virtual nodes below the root:
\* the node returned is the child "s" of the child "m" of the root.
C6_Witness ==
    /\ result.op = "split"
    /\ result.path = <<"/", "m", "/", "/", "s", "/">>
    /\ Follow(result.tree, <<NameM, NameS>>) = result.node
    /\ result.status = "ok"
    /\ result.rest = <<>>
    /\ NameM \in DOMAIN nodes[result.tree].children
    /\ nodes[result.tree].children[NameM] # NodeVal(result.node)
    /\ result.node # result.tree

\* C7: load of the dump of a tree succeeds and yields the same types, tags
\* and explicit children.
C7_RoundTrip ==
    result.op = "load" =>
        /\ result.status = "ok"
        /\ result.tree = TreeOf(result.node)

\* C8: fs2tag returns a Tag Query Node with the given tags whose explicit
\* children are those of the node it was given, whatever that node's type.
C8_Fs2TagCopiesChildren ==
    result.op = "fs2tag" =>
        /\ nodes[result.node].type = "TagNode"
        /\ nodes[result.node].tags = result.tags
        /\ nodes[result.node].children = result.before[result.src].children
        /\ nodes[result.src] = result.before[result.src]

\* C8 witness: fs2tag of a node that is not a plain Directory Node (a Tag
\* Query Node) and has an explicit child.
C8_Witness ==
    /\ result.op = "fs2tag"
    /\ nodes[result.src].type = "TagNode"
    /\ DOMAIN nodes[result.src].children # {}
    /\ DOMAIN nodes[result.node].children # {}

\* C9: delete of a name that is only a computed child of a border node fails
\* with KeyError and leaves the explicit children and the link count of every
\* node as they were; no delete changes the computed children.
C9_DeleteComputedOnly ==
    result.op = "delitem" =>
        /\ Computed(nodes[result.node]) = Computed(result.before[result.node])
        /\ ( /\ result.before[result.node].type \in {"TagNode", "RootNode"}
             /\ result.key \notin DOMAIN result.before[result.node].children
             /\ result.key \in DOMAIN Computed(result.before[result.node]) )
           => (result.status = "KeyError" /\ nodes = result.before)

\* C9 witness: the delete of a computed name of a Tag Query Node has failed.
C9_Witness ==
    /\ result.op = "delitem"
    /\ nodes[result.node].type = "TagNode"
    /\ result.key \notin DOMAIN nodes[result.node].children
    /\ result.key \in DOMAIN Computed(nodes[result.node])
    /\ result.status = "KeyError"

\* C10: lookup on a border node returns the explicit child, else the computed
\* child's real path, else fails with KeyError.
C10_BorderLookup ==
    (result.op = "getitem" /\ nodes[result.node].type \in {"TagNode", "RootNode"})
        => IF SpecLookup(result.node, result.key).found
           THEN /\ result.status = "ok"
                /\ result.val = SpecLookup(result.node, result.key).val
           ELSE result.status = "KeyError"

\* C11: the link count of every node is 2 + the number of its explicit
\* children, whatever made it; stated here for the node fs2tag returns: made
\* from a node with k children, its link count is 2 + k.
C11_LinkCountAfterFs2Tag ==
    result.op = "fs2tag" =>
        nodes[result.node].st_nlink
            = 2 + Cardinality(DOMAIN result.before[result.src].children)

\* C12: the mapping _uniqmap returns has as many entries as the input list
\* has distinct paths, also when the list repeats a path.
C12_SizeIsDistinctPaths ==
    upc = "done" => Cardinality(DOMAIN map) = Cardinality(Range(input))

\* C13: dump succeeds on every node, nodes with a string-valued child and so
\* every Root Projection Node included, and each node-valued child is stored
\* as its own dump.
C13_DumpStringChildren ==
    result.op = "dump" =>
        /\ result.status = "ok"
        /\ \A k \in DOMAIN nodes[result.node].children :
              ~nodes[result.node].children[k].isStr =>
                  result.ser.map[k] = Dump(nodes[result.node].children[k].id).ser

\* a serialized form names a type that is not registered, itself or in a child
RECURSIVE HasUnknownTag(_)
HasUnknownTag(ser) ==
    \/ ser.tag \notin LoadMapKeys
    \/ \E k \in DOMAIN ser.map : HasUnknownTag(ser.map[k])

\* C14: load of a serialized form with an unregistered type tag, at the top
\* level or in a nested child, fails with the unknown-type error (the KeyError
\* of the _load_map lookup) and changes no existing node.
C14_UnknownTypeAborts ==
    (result.op = "loadform" /\ HasUnknownTag(result.ser))
        => /\ result.status = "KeyError"
           /\ nodes = result.before

\* C15: split, lookup and enumerate, whether they succeed, stop at a boundary
\* or fail, leave the explicit children and the link count of every node as
\* they were; computed children are never written into the explicit mapping.
C15_ReadsChangeNothing ==
    result.op \in {"split", "getitem", "iter"} =>
        /\ Len(nodes) = Len(result.before)
        /\ \A n \in Ids :
              /\ nodes[n].children = result.before[n].children
              /\ nodes[n].st_nlink = result.before[n].st_nlink

\* C15 witness: a split has stopped at a computed child of a Tag Query Node,
\* and the name is still no explicit child of that node.
C15_Witness ==
    /\ result.op = "split"
    /\ result.status = "ok"
    /\ result.rest # <<>>
    /\ nodes[result.node].type = "TagNode"
    /\ result.rest[1] \in DOMAIN Computed(nodes[result.node])
    /\ result.rest[1] \notin DOMAIN nodes[result.node].children

\* C16 as stated: when the alternate name of the current path is occupied,
\* the path stored under it is put at the front of the queue and is the next
\* path processed; the current path takes the alternate name, which is
\* recorded as seen whether or not a path was evicted.
C16_EvictedToFront ==
    last.collision =>
        /\ map[last.name] = last.path
        /\ last.name \in names_seen
        /\ last.evicted => (files # <<>> /\ Head(files) = last.victim)

\* C16 amended: the path stored under the occupied alternate name is appended
\* to the back of the queue, behind every path still waiting; the current
\* path takes the alternate name, which is recorded as seen whether or not a
\* path was evicted (without eviction the queue is just the waiting paths).
C16_EvictedToBack ==
    last.collision =>
        /\ map[last.name] = last.path
        /\ last.name \in names_seen
        /\ files = IF last.evicted THEN Append(last.queue, last.victim)
                   ELSE last.queue

\* C16 witness: a path was evicted while another path was waiting; the
\* waiting path is next, the evicted one is last in the queue.
C16_Witness ==
    /\ last.collision
    /\ last.evicted
    /\ last.queue # <<>>
    /\ Head(files) = Head(last.queue)
    /\ Head(files) # last.victim
    /\ files[Len(files)] = last.victim
    /\ map[last.name] = last.path

\* how often a name occurs in an enumeration
Count(names, k) == Cardinality({i \in 1..Len(names) : names[i] = k})

\* the names that are both an explicit and a computed child of a node
InBoth(nd) == DOMAIN nd.children \cap DOMAIN Computed(nd)

\* C17: enumerate on a border node yields every explicit name, then every
\* computed name; a name in both populations is yielded twice; lookup of such
\* a name returns the explicit value.
C17_EnumerateBorder ==
    LET nd == nodes[result.node]
    IN  /\ (result.op = "iter" /\ nd.type \in {"TagNode", "RootNode"}) =>
              LET e == Cardinality(DOMAIN nd.children)
              IN  /\ result.status = "ok"
                  /\ Len(result.names) = e + Cardinality(DOMAIN Computed(nd))
                  /\ Range(SubSeq(result.names, 1, e)) = DOMAIN nd.children
                  /\ Range(SubSeq(result.names, e + 1, Len(result.names)))
                        = DOMAIN Computed(nd)
                  /\ \A k \in InBoth(nd) : Count(result.names, k) = 2
        /\ ( /\ result.op = "getitem"
             /\ nd.type \in {"TagNode", "RootNode"}
             /\ result.key \in InBoth(nd) )
           => (result.status = "ok" /\ result.val = nd.children[result.key])

\* C17 witness: a Tag Query Node whose explicit child "s" is also one of its
\* computed names was enumerated, and "s" came twice.
C17_Witness ==
    /\ result.op = "iter"
    /\ nodes[result.node].type = "TagNode"
    /\ NameS \in InBoth(nodes[result.node])
    /\ Count(result.names, NameS) = 2
    /\ Len(result.names) = 3

\* C18: fs2tag makes a shallow copy: an assign or a delete on the node fs2tag
\* returned leaves the children and the link count of the node it was made
\* from as they were, and the other way round (stated for every node other
\* than the one assigned to or deleted from).
C18_Fs2TagSharesNoMapping ==
    result.op \in {"setitem", "delitem"} =>
        \A i \in Ids \ {result.node} :
            /\ nodes[i].children = result.before[i].children
            /\ nodes[i].st_nlink = result.before[i].st_nlink

\* C18 witness: x = fs2tag(root, lib, tags) is the only node besides the root
\* and had the root's children; a name was assigned on x, and the root does
\* not have it.
C18_Witness ==
    /\ result.op = "setitem"
    /\ Len(nodes) = 2
    /\ nodes[2].tags \in Fs2TagLists
    /\ result.node = 2
    /\ result.before[2].children = result.before[1].children
    /\ result.key \notin DOMAIN result.before[2].children
    /\ result.key \in DOMAIN nodes[2].children
    /\ result.key \notin DOMAIN nodes[1].children
    /\ nodes[1] = result.before[1]

====
